---------------------------- MODULE Spec2Model ----------------------------
(***************************************************************************)
(* Model of examples/01_sqlite.ts: streamAndPersistTransactions, a         *)
(* resumable consumer that wraps the streamTransactions session with a     *)
(* checkpoint kept in a SQLite key/value table, and the top-level loop     *)
(* that consumes it.  One process runs at a time against one database      *)
(* file; the process may stop at any step and be launched again.           *)
(*                                                                         *)
(* streamTransactions itself is imported from ".." and is not part of the  *)
(* sources at hand: the session is modelled from its contract (a lazy      *)
(* sequence of data / error / metadata / status events, data batches       *)
(* non-empty and contiguous from the inclusive startingVersion, the        *)
(* sequence ending after an error event).                                  *)
(*                                                                         *)
(* Spec       the session keeps its contract.                              *)
(* SpecLoose  the session may skip versions (increasing, >= start).        *)
(* SpecFaulty the session may also hand over malformed batches.            *)
(* SpecStore  the checkpoint store may fail on a read or a write.          *)
(* SpecTwo    two processes of the program share one database file.        *)
(* SpecRange  the checkpoint write over the whole range of versions.       *)
(***************************************************************************)
EXTENDS Integers, Sequences, FiniteSets

\* ---------------------------------------------------------------- bounds
\* Versions 0 .. MaxVersion-1 exist on the chain.
MaxVersion == 3
\* A data event carries 1 .. MaxBatch transactions.
MaxBatch == 2
\* A session produces at most MaxEvents events before its sequence ends.
MaxEvents == 3
\* The program is launched at most MaxRuns times against the same file.
MaxRuns == 3

\* Versions are VersionBits wide in the model (64 in the program): unsigned
\* on the wire, signed in a SQLite INTEGER.
VersionBits == 4

\* ------------------------------------------------------------- constants
\* 01_sqlite.ts:76, 00_basic.ts:31  `event.chainId !== 2n`
ExpectedChainId == 2
\* 01_sqlite.ts:41  `?? { v: 0n }`
DefaultStartingVersion == 0

\* Chain ids a data event may report: the expected one and a foreign one.
ChainIds == {1, ExpectedChainId}

VARIABLES
    \* durable: the database file indexer.db
    schema,          \* set of table names that exist
    kv,              \* rows of table kv: set of [k, v]
    \* volatile: one process
    pc,              \* position of the process
    startingVersion, \* the generator's local `startingVersion`
    session,         \* the streamTransactions iterator
    event,           \* the generator's loop variable `event`
    produced,        \* events the session has produced in this run
    yielded,         \* events handed to the top-level loop in this run
    writes,          \* checkpoint writes done in this run
    reads,           \* checkpoint reads done in this run
    opens,           \* sessions opened in this run
    \* lifetime history
    run,             \* number of launches so far
    delivered,       \* batches of all data events yielded, in order
    lastWritten,     \* {value last passed to the checkpoint write}, or {}
    stopped,         \* data event in the caller's hands when the previous
                     \* process ended; NoEvent when there was none
    \* a second process of the same program on the same file (a misuse)
    peer             \* its position, session, loop variable and event count

vars == <<schema, kv, pc, startingVersion, session, event, produced,
          yielded, writes, reads, opens, run, delivered, lastWritten, stopped,
          peer>>

durable  == <<schema, kv>>
volatile == <<pc, startingVersion, session, event, produced, yielded, writes,
             reads, opens>>
history  == <<run, delivered, lastWritten, stopped>>

counters == <<reads, opens>>

\* ------------------------------------------------------------ data model
NoEvent == [type |-> "none", chainId |-> 0, transactions |-> <<>>]

DataEvent(c, txs) == [type |-> "data", chainId |-> c, transactions |-> txs]

InfoEvent(t) == [type |-> t, chainId |-> 0, transactions |-> <<>>]

NoSession == [state |-> "none", start |-> 0, next |-> 0]

\* The second process before it is launched.
NoPeer == [pc |-> "idle", session |-> NoSession, event |-> NoEvent, n |-> 0]

First(txs) == txs[1]

Last(txs) == txs[Len(txs)]

\* The versions n, n+1, .., n+len-1 as a sequence.
Range(n, len) == [i \in 1..len |-> n + i - 1]

SetMax(S) == CHOOSE x \in S : \A y \in S : y <= x

IsPrefix(s, t) == Len(s) <= Len(t) /\ \A i \in 1..Len(s) : s[i] = t[i]

\* --------------------------------------------------------- checkpoint store
CheckpointKey == "startingVersion"

\* `select v from kv where k = 'startingVersion'` ... .get()
SelectCheckpoint(rows) == {r \in rows : r.k = CheckpointKey}

\* BigInt(startingVersion): the database is opened with safeIntegers, so an
\* integer column reads back as a bigint and BigInt of a bigint is itself.
BigInt(v) == v

\* `insert into kv(k, v) values(k, ?) on conflict(k) do update set v = excluded.v`
UpsertIgnoringConflict(rows, key, val) ==
    IF \E r \in rows : r.k = key THEN rows
    ELSE rows \cup {[k |-> key, v |-> val]}

UpsertIfGreater(rows, key, val) ==
    IF \E r \in rows : r.k = key /\ r.v >= val THEN rows
    ELSE {r \in rows : r.k # key} \cup {[k |-> key, v |-> val]}

InsertWithoutKey(rows, key, val) == rows \cup {[k |-> key, v |-> val]}

Upsert(rows, key, val) ==
    {r \in rows : r.k # key} \cup {[k |-> key, v |-> val]}

\* `const { v: startingVersion } = db.query(...).get() ?? { v: 0n }`
StoredOrDefaultIgnoringStore(rows) == DefaultStartingVersion

StoredOrDefault(rows) ==
    IF SelectCheckpoint(rows) = {} THEN DefaultStartingVersion
    ELSE (CHOOSE r \in SelectCheckpoint(rows) : TRUE).v

\* The largest version of the wire format (2^64 - 1 in the program).
MaxUInt == 2^VersionBits - 1

\* The largest value of a SQLite INTEGER (2^63 - 1 in the program).
MaxStoredInteger == 2^(VersionBits - 1) - 1

\* .run(nextStartingVersion) on a database opened with safeIntegers: true: a
\* bigint outside the range of a SQLite INTEGER is refused with a RangeError
\* instead of being truncated.
Bindable(val) == val <= MaxStoredInteger

\* `event.transactions[event.transactions.length - 1].version! + 1n`
\* (bigint arithmetic: no width, no wrap-around)
NextStartingVersionWrapping(e) == (Last(e.transactions) + 1) % (MaxUInt + 1)

NextStartingVersionOffByOne(e) == Last(e.transactions) + 2

NextStartingVersionFromFirst(e) == First(e.transactions) + 1

NextStartingVersion(e) == Last(e.transactions) + 1

\* ------------------------------------------------- session (from its contract)
\* streamTransactions({ ...opts, startingVersion }): a fresh session whose
\* first transaction is the inclusive startingVersion.
SessionOpen(start) == [state |-> "open", start |-> start, next |-> start]

\* Batches the session may deliver next: non-empty, contiguous with what it
\* delivered before, within the chain.
SessionBatches(s) ==
    {Range(s.next, len) : len \in {l \in 1..MaxBatch : s.next + l <= MaxVersion}}

\* Events the session may produce next, having produced n so far.
SessionEvents(s, n) ==
    IF s.state # "open" \/ n >= MaxEvents THEN {}
    ELSE {DataEvent(c, txs) : c \in ChainIds, txs \in SessionBatches(s)}
         \cup {InfoEvent(t) : t \in {"error", "metadata", "status"}}

\* Batches of a session that only keeps its versions increasing and at or
\* above the requested startingVersion: the version that was due is skipped
\* (several such batches in a row skip several versions).
GapBatches(s) ==
    {Range(s.next + 1, len) : len \in {l \in 1..MaxBatch : s.next + 1 + l <= MaxVersion}}

\* Batches that violate the protocol: no transaction at all, versions that
\* decrease inside the batch, a version that was delivered before.
MalformedBatches(s) ==
    {<<>>}
    \cup (IF s.next + 1 < MaxVersion THEN {<<s.next + 1, s.next>>} ELSE {})
    \cup (IF s.next > s.start THEN {<<s.next - 1>>} ELSE {})

\* The session after producing e: a data event moves it past the batch, an
\* error event is the last one of its sequence.
SessionAdvance(s, e) ==
    IF e.type = "data" /\ Len(e.transactions) > 0
    THEN [s EXCEPT !.next = Last(e.transactions) + 1]
    ELSE IF e.type = "error" THEN [s EXCEPT !.state = "errored"]
    ELSE s

\* ------------------------------------------------------------------ Init
\* new Database("indexer.db", { create: true, ... }) on a machine that has
\* never run the program: no table, no row.
Init ==
    /\ schema = {}
    /\ kv = {}
    /\ pc = "boot"
    /\ startingVersion = DefaultStartingVersion
    /\ session = NoSession
    /\ event = NoEvent
    /\ produced = <<>>
    /\ yielded = <<>>
    /\ writes = 0
    /\ run = 1
    /\ delivered = <<>>
    /\ lastWritten = {}
    /\ stopped = NoEvent
    /\ reads = 0
    /\ opens = 0
    /\ peer = NoPeer

\* ----------------------------------------------- streamAndPersistTransactions
\* db.exec(`create table if not exists kv(k primary key, v)`)
CreateTable ==
    /\ pc = "boot"
    /\ schema' = schema \cup {"kv"}
    /\ pc' = "created"
    /\ UNCHANGED <<peer, counters, kv, startingVersion, session, event,
                   produced, yielded, writes, history>>

\* const { v: startingVersion } = db.query(`select ...`).get() ?? { v: 0n }
ReadCheckpoint ==
    /\ pc = "created"
    /\ startingVersion' = StoredOrDefault(kv)
    /\ reads' = reads + 1
    /\ pc' = "read"
    /\ UNCHANGED <<peer, opens, durable, session, event, produced, yielded,
                   writes, history>>

\* streamTransactions({ ...opts, startingVersion: BigInt(startingVersion) })
OpenSessionFromDefault ==
    /\ pc = "read"
    /\ session' = SessionOpen(DefaultStartingVersion)
    /\ opens' = opens + 1
    /\ pc' = "pull"
    /\ UNCHANGED <<peer, reads, durable, startingVersion, event, produced,
                   yielded, writes, history>>

OpenSession ==
    /\ pc = "read"
    /\ session' = SessionOpen(BigInt(startingVersion))
    /\ opens' = opens + 1
    /\ pc' = "pull"
    /\ UNCHANGED <<peer, reads, durable, startingVersion, event, produced,
                   yielded, writes, history>>

\* for await (const event of ...): the session hands over its next event.
PullEventAhead ==
    /\ pc \in {"pull", "resumed"}
    /\ \E e \in SessionEvents(session, Len(produced)) :
          /\ event' = e
          /\ produced' = Append(produced, e)
          /\ session' = SessionAdvance(session, e)
    /\ pc' = "got"
    /\ UNCHANGED <<peer, counters, durable, startingVersion, yielded, writes,
                   history>>

PullEvent ==
    /\ pc = "pull"
    /\ \E e \in SessionEvents(session, Len(produced)) :
          /\ event' = e
          /\ produced' = Append(produced, e)
          /\ session' = SessionAdvance(session, e)
    /\ pc' = "got"
    /\ UNCHANGED <<peer, counters, durable, startingVersion, yielded, writes,
                   history>>

\* for await (...): the session's sequence ends, so the loop and with it the
\* generator and the top-level loop end.
SessionEndRetrying ==
    /\ pc = "pull"
    /\ session.state \in {"open", "errored"}
    /\ session' = [session EXCEPT !.state = "ended"]
    /\ pc' = "created"
    /\ UNCHANGED <<peer, counters, durable, startingVersion, event, produced,
                   yielded, writes, history>>

SessionEnd ==
    /\ pc = "pull"
    /\ session.state \in {"open", "errored"}
    /\ session' = [session EXCEPT !.state = "ended"]
    /\ pc' = "done"
    /\ UNCHANGED <<peer, counters, durable, startingVersion, event, produced,
                   yielded, writes, history>>

\* yield event
YieldEventAfterPersist ==
    /\ pc = "got"
    /\ yielded' = Append(yielded, event)
    /\ delivered' = IF event.type = "data"
                    THEN Append(delivered, event.transactions) ELSE delivered
    /\ IF event.type = "data"
       THEN /\ kv' = Upsert(kv, CheckpointKey, NextStartingVersion(event))
            /\ lastWritten' = {NextStartingVersion(event)}
       ELSE UNCHANGED <<kv, lastWritten>>
    /\ pc' = "yielded"
    /\ UNCHANGED <<peer, counters, schema, startingVersion, session, event,
                   produced, writes, run, stopped>>

YieldEventDroppingInfo ==
    /\ pc = "got"
    /\ yielded' = IF event.type = "data" THEN Append(yielded, event) ELSE yielded
    /\ delivered' = IF event.type = "data"
                    THEN Append(delivered, event.transactions) ELSE delivered
    /\ pc' = "yielded"
    /\ UNCHANGED <<peer, counters, durable, startingVersion, session, event,
                   produced, writes, run, lastWritten, stopped>>

YieldEvent ==
    /\ pc = "got"
    /\ yielded' = Append(yielded, event)
    /\ delivered' = IF event.type = "data"
                    THEN Append(delivered, event.transactions) ELSE delivered
    /\ pc' = "yielded"
    /\ UNCHANGED <<peer, counters, durable, startingVersion, session, event,
                   produced, writes, run, lastWritten, stopped>>

\* if (event.type === "data") { ... db.query(`insert ...`).run(nextStartingVersion) }
\* An empty batch makes `event.transactions[-1].version` throw a TypeError
\* out of the generator; a value that is no SQLite INTEGER makes .run() throw
\* a RangeError out of it.
AfterYieldWritingAlways ==
    /\ pc = "resumed"
    /\ LET val == IF event.type = "data" /\ Len(event.transactions) > 0
                  THEN NextStartingVersion(event) ELSE DefaultStartingVersion
       IN /\ kv' = Upsert(kv, CheckpointKey, val)
          /\ lastWritten' = {val}
    /\ writes' = writes + 1
    /\ pc' = "pull"
    /\ UNCHANGED <<peer, counters, schema, startingVersion, session, event,
                   produced, yielded, run, delivered, stopped>>

AfterYieldSkippingSingles ==
    /\ pc = "resumed"
    /\ IF event.type # "data" \/ Len(event.transactions) = 1
       THEN /\ pc' = "pull"
            /\ UNCHANGED <<kv, writes, lastWritten, session>>
       ELSE IF Len(event.transactions) = 0
       THEN /\ pc' = "failed"
            /\ session' = [session EXCEPT !.state = "released"]
            /\ UNCHANGED <<kv, writes, lastWritten>>
       ELSE /\ kv' = Upsert(kv, CheckpointKey, NextStartingVersion(event))
            /\ lastWritten' = {NextStartingVersion(event)}
            /\ writes' = writes + 1
            /\ pc' = "pull"
            /\ UNCHANGED session
    /\ UNCHANGED <<peer, counters, schema, startingVersion, event, produced,
                   yielded, run, delivered, stopped>>

AfterYield ==
    /\ pc = "resumed"
    /\ IF event.type # "data"
       THEN /\ pc' = "pull"
            /\ UNCHANGED <<kv, writes, lastWritten, session>>
       ELSE IF Len(event.transactions) = 0
       THEN /\ pc' = "failed"
            /\ session' = [session EXCEPT !.state = "released"]
            /\ UNCHANGED <<kv, writes, lastWritten>>
       ELSE IF ~Bindable(NextStartingVersion(event))
       THEN /\ pc' = "storeFailed"
            /\ session' = [session EXCEPT !.state = "released"]
            /\ UNCHANGED <<kv, writes, lastWritten>>
       ELSE /\ kv' = Upsert(kv, CheckpointKey, NextStartingVersion(event))
            /\ lastWritten' = {NextStartingVersion(event)}
            /\ writes' = writes + 1
            /\ pc' = "pull"
            /\ UNCHANGED session
    /\ UNCHANGED <<peer, counters, schema, startingVersion, event, produced,
                   yielded, run, delivered, stopped>>

\* ------------------------------------------------------- top-level loop
\* The body of the top-level loop throws on this event: a foreign chainId, or
\* `event.transactions[0].version` of an empty batch.
CallerThrowsOnlyOnEmpty(e) ==
    /\ e.type = "data"
    /\ Len(e.transactions) = 0

CallerThrows(e) ==
    /\ e.type = "data"
    /\ (e.chainId # ExpectedChainId \/ Len(e.transactions) = 0)

\* The body runs to its `break`; the loop asks the generator for the next item.
CallerContinues ==
    /\ pc = "yielded"
    /\ ~CallerThrows(event)
    /\ pc' = "resumed"
    /\ UNCHANGED <<peer, counters, durable, startingVersion, session, event,
                   produced, yielded, writes, history>>

\* throw new Error(...): the loop is left, which closes the generator at its
\* yield and with it the session iterator; the process ends with the error.
CallerFailsAndPersists ==
    /\ pc = "yielded"
    /\ CallerThrows(event)
    /\ pc' = "failed"
    /\ session' = [session EXCEPT !.state = "released"]
    /\ kv' = IF Len(event.transactions) > 0
             THEN Upsert(kv, CheckpointKey, NextStartingVersion(event)) ELSE kv
    /\ UNCHANGED <<peer, counters, schema, startingVersion, event, produced,
                   yielded, writes, history>>

CallerFails ==
    /\ pc = "yielded"
    /\ CallerThrows(event)
    /\ pc' = "failed"
    /\ session' = [session EXCEPT !.state = "released"]
    /\ UNCHANGED <<peer, counters, durable, startingVersion, event, produced,
                   yielded, writes, history>>

\* The process ends (by itself, by the failure, or killed at any step) and the
\* program is launched again on the same indexer.db.
Restart ==
    /\ run < MaxRuns
    /\ run' = run + 1
    /\ stopped' = IF /\ pc \in {"yielded", "resumed", "failed", "storeFailed"}
                     /\ event.type = "data"
                  THEN event ELSE NoEvent
    /\ pc' = "boot"
    /\ startingVersion' = DefaultStartingVersion
    /\ session' = NoSession
    /\ event' = NoEvent
    /\ produced' = <<>>
    /\ yielded' = <<>>
    /\ writes' = 0
    /\ reads' = 0
    /\ opens' = 0
    /\ UNCHANGED <<peer, durable, delivered, lastWritten>>

\* db.exec(...) or db.query(...).get() throws: the error leaves the generator
\* before streamTransactions is called and ends the process.
StoreFailsAtStart ==
    /\ pc \in {"boot", "created"}
    /\ pc' = "storeFailed"
    /\ UNCHANGED <<peer, counters, durable, startingVersion, session, event,
                   produced, yielded, writes, history>>

\* db.query(`insert ...`).run(nextStartingVersion) throws: the statement
\* changes nothing, the error leaves the for await loop, which releases the
\* session iterator, and ends the process.
WriteFailsAsErrorEvent ==
    /\ pc = "resumed"
    /\ event.type = "data"
    /\ Len(event.transactions) > 0
    /\ event' = InfoEvent("error")
    /\ yielded' = Append(yielded, InfoEvent("error"))
    /\ pc' = "yielded"
    /\ UNCHANGED <<peer, counters, durable, startingVersion, session, produced,
                   writes, history>>

WriteFails ==
    /\ pc = "resumed"
    /\ event.type = "data"
    /\ Len(event.transactions) > 0
    /\ session' = [session EXCEPT !.state = "released"]
    /\ pc' = "storeFailed"
    /\ UNCHANGED <<peer, counters, durable, startingVersion, event, produced,
                   yielded, writes, history>>

\* for await (const event of ...): the session hands over a batch that is
\* not contiguous with the previous one.
PullGapEvent ==
    /\ pc = "pull"
    /\ session.state = "open"
    /\ Len(produced) < MaxEvents
    /\ \E txs \in GapBatches(session) :
          /\ event' = DataEvent(ExpectedChainId, txs)
          /\ produced' = Append(produced, DataEvent(ExpectedChainId, txs))
          /\ session' = SessionAdvance(session, DataEvent(ExpectedChainId, txs))
    /\ pc' = "got"
    /\ UNCHANGED <<peer, counters, durable, startingVersion, yielded, writes,
                   history>>

\* for await (const event of ...): the session hands over a batch that
\* violates the protocol.
PullMalformedEvent ==
    /\ pc = "pull"
    /\ session.state = "open"
    /\ Len(produced) < MaxEvents
    /\ \E txs \in MalformedBatches(session) :
          /\ event' = DataEvent(ExpectedChainId, txs)
          /\ produced' = Append(produced, DataEvent(ExpectedChainId, txs))
          /\ session' = SessionAdvance(session, DataEvent(ExpectedChainId, txs))
    /\ pc' = "got"
    /\ UNCHANGED <<peer, counters, durable, startingVersion, yielded, writes,
                   history>>

Next ==
    \/ CreateTable
    \/ ReadCheckpoint
    \/ OpenSession
    \/ PullEvent
    \/ SessionEnd
    \/ YieldEvent
    \/ CallerContinues
    \/ CallerFails
    \/ AfterYield
    \/ Restart

Spec == Init /\ [][Next]_vars

\* The session only keeps versions increasing and >= startingVersion.
NextLoose ==
    \/ Next
    \/ PullGapEvent

SpecLoose == Init /\ [][NextLoose]_vars

\* ------------------------------------- a second process on the same file
\* The steps of the second process are those of the first, taken together
\* where they touch nothing shared: its start up to the opened session
\* (one read of the table), the delivery of an event to its own top-level
\* loop, and the code after the yield (one write of the table).
PeerStart ==
    /\ peer.pc = "idle"
    /\ schema' = schema \cup {"kv"}
    /\ peer' = [pc |-> "pull",
                session |-> SessionOpen(BigInt(StoredOrDefault(kv))),
                event |-> NoEvent,
                n |-> 0]
    /\ UNCHANGED <<kv, volatile, history>>

PeerDeliver ==
    /\ peer.pc = "pull"
    /\ \E e \in SessionEvents(peer.session, peer.n) :
          peer' = [pc |-> IF CallerThrows(e) THEN "failed" ELSE "resumed",
                   session |-> SessionAdvance(peer.session, e),
                   event |-> e,
                   n |-> peer.n + 1]
    /\ UNCHANGED <<durable, volatile, history>>

PeerPersist ==
    /\ peer.pc = "resumed"
    /\ peer' = [peer EXCEPT !.pc = "pull"]
    /\ IF peer.event.type = "data" /\ Len(peer.event.transactions) > 0
       THEN /\ kv' = Upsert(kv, CheckpointKey, NextStartingVersion(peer.event))
            /\ lastWritten' = {NextStartingVersion(peer.event)}
       ELSE UNCHANGED <<kv, lastWritten>>
    /\ UNCHANGED <<schema, volatile, run, delivered, stopped>>

\* Two processes, each launched once, on the same file.
NextTwo ==
    \/ CreateTable
    \/ ReadCheckpoint
    \/ OpenSession
    \/ PullEvent
    \/ SessionEnd
    \/ YieldEvent
    \/ CallerContinues
    \/ CallerFails
    \/ AfterYield
    \/ PeerStart
    \/ PeerDeliver
    \/ PeerPersist

SpecTwo == Init /\ [][NextTwo]_vars

\* ------------------------------------------- versions of the whole range
\* A run at the point where the caller has handed back the first data event
\* of its session: any batch of the version range, the session having been
\* opened at any checkpoint the table can hold that is not above the batch.
InitRange ==
    \E c \in 0..MaxStoredInteger :
      \E txs \in {Range(n, len) : n \in c..MaxUInt, len \in 1..MaxBatch} :
        /\ Last(txs) <= MaxUInt
        /\ schema = {"kv"}
        /\ kv = IF c = DefaultStartingVersion THEN {}
                ELSE {[k |-> CheckpointKey, v |-> c]}
        /\ pc = "resumed"
        /\ startingVersion = c
        /\ session = [state |-> "open", start |-> c, next |-> Last(txs) + 1]
        /\ event = DataEvent(ExpectedChainId, txs)
        /\ produced = <<DataEvent(ExpectedChainId, txs)>>
        /\ yielded = <<DataEvent(ExpectedChainId, txs)>>
        /\ writes = 0
        /\ reads = 1
        /\ opens = 1
        /\ run = 1
        /\ delivered = <<txs>>
        /\ lastWritten = {r.v : r \in kv}
        /\ stopped = NoEvent
        /\ peer = NoPeer

NextRange == AfterYield

SpecRange == InitRange /\ [][NextRange]_vars

\* The checkpoint store may fail.
NextStore ==
    \/ Next
    \/ StoreFailsAtStart
    \/ WriteFails

SpecStore == Init /\ [][NextStore]_vars

\* The session may also violate the protocol.
NextFaulty ==
    \/ Next
    \/ PullGapEvent
    \/ PullMalformedEvent

SpecFaulty == Init /\ [][NextFaulty]_vars

\* ======================================================== properties
\* Values held by the rows of the checkpoint table.
StoredValues == {r.v : r \in kv}

\* The data events of a sequence of events, in order.
DataOf(evs) == SelectSeq(evs, LAMBDA e : e.type = "data")

\* Versions of all data events delivered to the caller so far, over all runs.
Seen == UNION {{delivered[i][j] : j \in 1..Len(delivered[i])} : i \in 1..Len(delivered)}

\* Batches that are increasing inside and contiguous across their boundaries.
Contiguous(batches) ==
    /\ \A i \in 1..Len(batches) : \A j \in 1..(Len(batches[i]) - 1) :
          batches[i][j + 1] = batches[i][j] + 1
    /\ \A i \in 1..(Len(batches) - 1) :
          First(batches[i + 1]) = Last(batches[i]) + 1

Batches(evs) == [i \in 1..Len(DataOf(evs)) |-> DataOf(evs)[i].transactions]

\* C1: at-least-once delivery.  When the previous process ended with a data
\* batch in the caller's hands whose checkpoint was not yet written, the
\* session of the next process starts at the first version of that batch and
\* the first data event it delivers starts at that version: the batch is
\* delivered again, not skipped.  While a data batch is in the caller's hands
\* the stored checkpoint has not moved into or past that batch.
C1_AtLeastOnce ==
    /\ (stopped.type = "data" /\ session.state # "none") =>
          /\ session.start = First(stopped.transactions)
          /\ DataOf(yielded) # <<>> =>
                First(DataOf(yielded)[1].transactions) = First(stopped.transactions)
    /\ (pc \in {"yielded", "resumed", "failed"} /\ event.type = "data") =>
          \A c \in StoredValues : c <= First(event.transactions)

C1_Witness ==
    /\ stopped.type = "data"
    /\ DataOf(yielded) # <<>>
    /\ DataOf(yielded)[1].transactions = stopped.transactions
    /\ Len(delivered) >= 3

\* C2: never silent loss.  Every version below the stored checkpoint has been
\* yielded to the caller in some data event, and the checkpoint is at most
\* one past the highest version yielded.
C2_NeverSilentLoss ==
    \A c \in StoredValues :
        /\ \A v \in 0..(c - 1) : v \in Seen
        /\ Seen # {}
        /\ c <= SetMax(Seen) + 1

C2_Witness ==
    /\ run > 1
    /\ stopped.type = "data"
    /\ writes > 0
    /\ \E c \in StoredValues : c = MaxVersion

\* C3: the session is opened with exactly the stored checkpoint, or with 0
\* when the table has no such row.
C3_StartsAtCheckpoint ==
    (session.state # "none" /\ writes = 0) =>
        /\ StoredValues = {} => session.start = 0
        /\ StoredValues # {} => StoredValues = {session.start}

C3_Witness ==
    /\ session.state = "open"
    /\ writes = 0
    /\ StoredValues = {2}
    /\ session.start = 2

\* C4: right after the checkpoint write for a data event, the stored
\* checkpoint is the version of the last transaction of its batch plus one,
\* whatever was stored before.
C4_CheckpointAfterWrite ==
    (pc = "pull" /\ event.type = "data") =>
        StoredValues = {Last(event.transactions) + 1}

C4_Witness ==
    /\ pc = "pull"
    /\ event.type = "data"
    /\ Len(event.transactions) = 2
    /\ writes = 2
    /\ run > 1

\* C5: resume round trip.  A process launched after a checkpoint v was
\* written reads back v, opens its session at v, and no data event it
\* delivers before its own first write starts below v.
C5_ResumeRoundTrip ==
    (run > 1 /\ lastWritten # {} /\ writes = 0 /\ pc \notin {"boot", "created"}) =>
        /\ lastWritten = {startingVersion}
        /\ session.state # "none" => lastWritten = {session.start}
        /\ \A i \in 1..Len(DataOf(yielded)) :
              \A v \in lastWritten : First(DataOf(yielded)[i].transactions) >= v

C5_Witness ==
    /\ run > 1
    /\ lastWritten = {1}
    /\ writes = 0
    /\ DataOf(yielded) # <<>>
    /\ First(DataOf(yielded)[1].transactions) = 1

\* C6: a data event with a foreign chainId is fatal.  The only step of the
\* process on such an event is the caller's failure, which writes nothing
\* and ends the sequence; after the failure the process takes no further
\* step (it can only be launched again) and the store keeps its content, a
\* checkpoint that is not past the first version of the rejected batch.
C6_ChainMismatchIsFatal ==
    /\ [](( /\ pc \in {"yielded", "failed"}
            /\ event.type = "data"
            /\ event.chainId # ExpectedChainId)
          => \A c \in StoredValues : c <= First(event.transactions))
    /\ [][(/\ pc = "yielded"
           /\ event.type = "data"
           /\ event.chainId # ExpectedChainId
           /\ run' = run)
          => (/\ pc' = "failed"
              /\ kv' = kv
              /\ yielded' = yielded
              /\ produced' = produced
              /\ writes' = writes)]_vars
    /\ [][(pc = "failed" /\ event.chainId # ExpectedChainId)
          => (run' = run + 1 /\ kv' = kv)]_vars

C6_Witness ==
    /\ pc = "failed"
    /\ event.type = "data"
    /\ event.chainId # ExpectedChainId
    /\ First(event.transactions) > 0
    /\ StoredValues = {First(event.transactions)}

\* C7: cancellation.  Once the caller has left the loop the session iterator
\* is released, nothing was pulled from the session beyond what was yielded,
\* and the store was written once for every data event but the one being
\* handled; entering and leaving that state leave the store as it is.
C7_Cancellation ==
    /\ [](pc = "failed" =>
            /\ session.state = "released"
            /\ produced = yielded
            /\ event = yielded[Len(yielded)]
            /\ writes = Len(DataOf(yielded)) - 1)
    /\ [][(pc = "failed" \/ pc' = "failed") =>
            (kv' = kv /\ (run' = run => produced' = produced))]_vars

C7_Witness ==
    /\ pc = "failed"
    /\ session.state = "released"
    /\ Len(DataOf(yielded)) = 2
    /\ writes = 1
    /\ StoredValues # {Last(event.transactions) + 1}

\* C8: only the handling of a data event changes the checkpoint table;
\* error, metadata and status events leave it unchanged.
C8_OnlyDataWrites ==
    [][kv' # kv => (pc = "resumed" /\ event.type = "data" /\ pc' = "pull")]_vars

C8_Witness ==
    /\ pc = "pull"
    /\ event.type \in {"error", "metadata", "status"}
    /\ Len(yielded) >= 2
    /\ StoredValues = {2}

\* C9: transparent passthrough.  What the caller has been handed is a prefix
\* of what the session has produced, lagging by at most the one event in the
\* generator's hands; the data batches the caller sees are contiguous.
C9_Passthrough ==
    /\ IsPrefix(yielded, produced)
    /\ Len(produced) <= Len(yielded) + 1
    /\ pc \in {"yielded", "resumed", "failed"} => yielded = produced
    /\ Contiguous(Batches(produced)) => Contiguous(Batches(yielded))

C9_Witness ==
    /\ Len(yielded) = MaxEvents
    /\ Len(DataOf(yielded)) = 2
    /\ yielded[2].type = "status"
    /\ yielded = produced

\* C10 as stated: no delivered data batch has a version lower than a version
\* delivered earlier, over all runs.
C10_NoVersionBelowEarlier ==
    \A i \in 1..Len(delivered) : \A j \in (i + 1)..Len(delivered) :
        \A a \in 1..Len(delivered[i]) : \A b \in 1..Len(delivered[j]) :
            delivered[j][b] >= delivered[i][a]

\* C10 amended: over all runs, no delivered data batch starts below the first
\* version of a batch delivered earlier (a restart may deliver the versions
\* of the last batch again), and within one run the versions delivered are
\* strictly increasing.
C10_NoBatchStartsBelowEarlier ==
    /\ \A i \in 1..Len(delivered) : \A j \in (i + 1)..Len(delivered) :
          First(delivered[j]) >= First(delivered[i])
    /\ \A i \in 1..Len(Batches(yielded)) : \A j \in (i + 1)..Len(Batches(yielded)) :
          First(Batches(yielded)[j]) > Last(Batches(yielded)[i])

C10_Witness ==
    /\ run > 1
    /\ Len(delivered) >= 3
    /\ \E i \in 1..Len(delivered) : \E j \in (i + 1)..Len(delivered) :
          /\ First(delivered[j]) = First(delivered[i])
          /\ Last(delivered[j]) < Last(delivered[i])

\* The last version of the batch delivered before the data event that was
\* yielded last (there is one when two data events were yielded).
PreviousLast ==
    Last(DataOf(yielded)[Len(DataOf(yielded)) - 1].transactions)

\* The data event yielded last is not contiguous with the batch delivered
\* before it in this run, or not increasing inside.
NonContiguous(e) ==
    /\ Len(e.transactions) > 0
    /\ \/ /\ Len(DataOf(yielded)) >= 2
          /\ Len(DataOf(yielded)[Len(DataOf(yielded)) - 1].transactions) > 0
          /\ First(e.transactions) # PreviousLast + 1
       \/ \E j \in 1..(Len(e.transactions) - 1) :
             e.transactions[j + 1] <= e.transactions[j]

\* The loop variable is the event the caller was handed last.
HandlingYielded == yielded # <<>> /\ event = yielded[Len(yielded)]

\* C11 as stated: a data event with zero transactions is never handed to the
\* caller as a data event, and the checkpoint is not advanced by it.
C11_EmptyBatchNotDelivered ==
    /\ \A i \in 1..Len(yielded) :
          ~(yielded[i].type = "data" /\ Len(yielded[i].transactions) = 0)
    /\ (event.type = "data" /\ Len(event.transactions) = 0 /\ HandlingYielded) =>
          writes <= Len(DataOf(yielded)) - 1

\* C12 as stated: a data event that is not contiguous with the batch
\* delivered before it is fatal; the process does not go on past it and the
\* checkpoint is not written for it.
C12_NonContiguousIsFatal ==
    (event.type = "data" /\ HandlingYielded /\ NonContiguous(event)) =>
        /\ pc \in {"yielded", "failed"}
        /\ writes <= Len(DataOf(yielded)) - 1

\* C13: no retry.  One invocation opens at most one session; when the
\* session's sequence ends the consumer's ends in the same step, every data
\* event delivered having had its checkpoint write, and after that the
\* process takes no step: the session is not opened again.
C13_NoRetry ==
    /\ [](opens <= 1)
    /\ [](pc = "done" =>
            /\ session.state = "ended"
            /\ opens = 1
            /\ yielded = produced
            /\ writes = Len(DataOf(yielded)))
    /\ [][(session.state # "ended" /\ session'.state = "ended") => pc' = "done"]_vars
    /\ [][pc = "done" => (run' = run + 1 /\ kv' = kv)]_vars

C13_Witness ==
    /\ pc = "done"
    /\ Len(yielded) = 2
    /\ yielded[1].type = "data"
    /\ yielded[2].type = "error"
    /\ writes = 1

\* The data event in the caller's hands, or handed back with its checkpoint
\* write still to come: 1 when there is one, else 0.
Pending ==
    IF pc \in {"yielded", "resumed", "failed"} /\ event.type = "data" THEN 1 ELSE 0

\* C14: within one run the checkpoint is read once, before the session is
\* opened; the writes are as many as the data events the caller has handed
\* back (the write of the one just handed back being the next step), never
\* more than the data events yielded; the table holds at most one row, keyed
\* 'startingVersion'.
C14_ReadOnceWriteOncePerData ==
    /\ reads <= 1
    /\ opens <= reads
    /\ pc \notin {"boot", "created"} => reads = 1
    /\ writes <= Len(DataOf(yielded))
    /\ writes = Len(DataOf(yielded)) - Pending
    /\ Cardinality(kv) <= 1
    /\ \A r \in kv : r.k = "startingVersion"

C14_Witness ==
    /\ run > 1
    /\ reads = 1
    /\ writes = 1
    /\ Len(DataOf(yielded)) = 2
    /\ pc = "resumed"
    /\ Cardinality(kv) = 1

\* C15: a failure of the checkpoint store ends the consumer's sequence as a
\* failure.  Every event the caller was handed came from the session (none
\* is made up for the failure); a failed read leaves no session opened and
\* nothing delivered; a failed write leaves the session released, nothing
\* pulled or yielded beyond the event it was for, and the table as it was;
\* after the failure the process takes no step.
C15_StoreFailureIsRaised ==
    /\ [](IsPrefix(yielded, produced))
    /\ [](pc = "storeFailed" =>
            /\ yielded = produced
            /\ session.state \in {"none", "released"}
            /\ session.state = "none" => (opens = 0 /\ yielded = <<>>)
            /\ session.state = "released" =>
                  /\ event.type = "data"
                  /\ HandlingYielded
                  /\ writes = Len(DataOf(yielded)) - 1
                  /\ \A c \in StoredValues : c <= First(event.transactions))
    /\ [][(pc' = "storeFailed" /\ run' = run) =>
            (kv' = kv /\ yielded' = yielded /\ produced' = produced)]_vars
    /\ [][pc = "storeFailed" => (run' = run + 1 /\ kv' = kv)]_vars

C15_Witness ==
    /\ pc = "storeFailed"
    /\ session.state = "released"
    /\ Len(DataOf(yielded)) = 2
    /\ StoredValues = {First(event.transactions)}

\* C16: no read-ahead.  The session has produced at most one event more than
\* the caller was handed, and it is asked for an event only when every event
\* it produced was yielded and handed back and, the last one being a data
\* event, the checkpoint of that event is in the table.
C16_NoReadAhead ==
    /\ [](Len(produced) <= Len(yielded) + 1)
    /\ [][(produced' # produced /\ run' = run) =>
            /\ pc = "pull"
            /\ produced = yielded
            /\ Len(produced') = Len(produced) + 1
            /\ (yielded # <<>> /\ event.type = "data") =>
                  /\ StoredValues = {Last(event.transactions) + 1}
                  /\ writes = Len(DataOf(yielded))]_vars

C16_Witness ==
    /\ pc = "got"
    /\ Len(produced) = 3
    /\ Len(yielded) = 2
    /\ writes = 2

\* The checkpoint a launch would start from: the stored value, 0 without one.
Checkpoint(rows) == IF rows = {} THEN 0 ELSE SetMax({r.v : r \in rows})

\* C17: with a session whose versions are increasing and at or above the
\* requested startingVersion, no step lowers the stored checkpoint, and every
\* checkpoint write raises it.
C17_CheckpointMonotonic ==
    [][/\ Checkpoint(kv') >= Checkpoint(kv)
       /\ (writes' = writes + 1 \/ kv' # kv) => Checkpoint(kv') > Checkpoint(kv)]_vars

C17_Witness ==
    /\ run > 1
    /\ writes = 1
    /\ StoredValues = {MaxVersion}
    /\ 1 \notin Seen
    /\ Len(delivered) >= 3

\* Versions the caller has received that are at or above the checkpoint.
Uncommitted == {v \in Seen : v >= Checkpoint(kv)}

\* C18: bounded replay.  In a run at most one data batch has been yielded
\* without its checkpoint being written, and over all runs the versions the
\* caller has received at or above the checkpoint (those a restart delivers
\* again) all lie in one delivered batch.
C18_BoundedReplay ==
    /\ Len(DataOf(yielded)) - writes \in {0, 1}
    /\ \/ Uncommitted = {}
       \/ \E i \in 1..Len(delivered) :
             Uncommitted \subseteq {delivered[i][j] : j \in 1..Len(delivered[i])}

C18_Witness ==
    /\ run > 1
    /\ stopped.type = "data"
    /\ Len(stopped.transactions) = 2
    /\ Len(DataOf(yielded)) = 2
    /\ writes = 1
    /\ Cardinality(Uncommitted) = 2

\* C19: the checkpoint write is an unconditional overwrite.  With two
\* processes on one file, in every state the table holds exactly the value
\* of the most recent write, whichever process made it and whatever the
\* table held before.
C19_LastWriteWins ==
    lastWritten # {} => StoredValues = lastWritten

\* The first process has overwritten a higher checkpoint of the second: the
\* checkpoint went down.
C19_Witness ==
    /\ pc = "pull"
    /\ event.type = "data"
    /\ writes >= 1
    /\ peer.pc = "pull"
    /\ peer.event.type = "data"
    /\ Last(peer.event.transactions) > Last(event.transactions)
    /\ StoredValues = {Last(event.transactions) + 1}

=============================================================================
